---- MODULE Spec2Model ----
(***************************************************************************)
(* Resume analyzer backend: the provider registry (ai-service-registry.ts), *)
(* the live-model provider with its result parser (openai-service.ts), the  *)
(* text extractor (types.ts) and the HTTP handlers (index.ts).              *)
(*                                                                          *)
(* Text is a sequence of atoms.  An atom is one character ("-", "%", "1",   *)
(* "\n", ...), a word standing for its literal letters ("strong",           *)
(* "Strengths:"), or one member of a JSON object (a record carrying the key *)
(* and the decoded value, standing for the member's source text with its    *)
(* separators).  JSON.parse itself is library code: a member's decoded      *)
(* value is given with the member, and a region decodes iff it is "{",      *)
(* members and white space, "}".                                            *)
(***************************************************************************)
EXTENDS Integers, Sequences, FiniteSets, TLC

\* ---------------------------------------------------------------- bounds

\* longest list the upstream model puts into a JSON array
MaxItems == 6
\* most chunks (lines, braces, small objects) concatenated into a prose reply
MaxParts == 4
\* requests in progress at the same time
MaxReq == 2
\* the analysis requests the modal issues in a run
MaxAnalyses == 2
\* the service listings the modal may be fetching at once
MaxLoads == 1

\* ------------------------------------------------------ program constants

\* items.slice(0, 5) and items.length >= 5
MaxListItems == 5
\* Math.max(0, ...)
MinScore == 0
\* Math.min(100, ...)
MaxScore == 100
\* let score = 50
BaseScore == 50
\* score += 10 / score -= 10
ScoreStep == 10
\* text.substring(0, 500)
PreviewLen == 500

\* ------------------------------------------------------------ JSON values

JUndefined == [t |-> "undefined", n |-> 0, s |-> <<>>, a |-> <<>>]
JNull == [t |-> "null", n |-> 0, s |-> <<>>, a |-> <<>>]
JNum(n) == [t |-> "number", n |-> n, s |-> <<>>, a |-> <<>>]
\* s: the string's characters
JStr(s) == [t |-> "string", n |-> 0, s |-> s, a |-> <<>>]
\* a: the array's elements, each a string
JArr(a) == [t |-> "array", n |-> 0, s |-> <<>>, a |-> a]

\* JavaScript truthiness of a decoded value (what x || y tests)
Truthy(v) ==
    CASE v.t = "undefined" -> FALSE
      [] v.t = "null" -> FALSE
      [] v.t = "number" -> v.n # 0
      [] v.t = "string" -> v.s # <<>>
      [] OTHER -> TRUE

\* x || y
OrElse(x, y) == IF Truthy(x) THEN x ELSE y

\* ------------------------------------------------------------------ text

Ch(c) == [ch |-> c, key |-> "", val |-> JUndefined]
Mem(k, v) == [ch |-> "<member>", key |-> k, val |-> v]
Text(cs) == [i \in 1..Len(cs) |-> Ch(cs[i])]
IsMember(tok) == tok.ch = "<member>"
\* the characters of a piece of text, as a string value
Chars(toks) == [i \in 1..Len(toks) |-> toks[i].ch]

\* the atom of the bullet character U+2022
Bullet == "bullet"

Digits == <<"0", "1", "2", "3", "4", "5", "6", "7", "8", "9">>
IsDigit(tok) == \E d \in 1..Len(Digits) : tok.ch = Digits[d]
DigitValue(tok) == (CHOOSE d \in 1..Len(Digits) : tok.ch = Digits[d]) - 1
IsSpace(tok) == tok.ch \in {" ", "\t", "\n", "\r"}

Min(x, y) == IF x < y THEN x ELSE y
Max(x, y) == IF x > y THEN x ELSE y

\* the words of the fallback heuristics that an atom's lower-cased letters contain
WordsIn(tok) ==
    CASE IsMember(tok) /\ tok.key = "strengths" -> {"strength"}
      [] IsMember(tok) /\ tok.key = "improvements" -> {"improv"}
      [] IsMember(tok) /\ tok.key = "skillGaps" -> {"skill"}
      [] IsMember(tok) /\ tok.key = "recommendations" -> {"recommend"}
      [] tok.ch = "Strengths:" -> {"strength"}
      [] tok.ch = "Improvements:" -> {"improv"}
      [] tok.ch = "Skills:" -> {"skill"}
      [] tok.ch = "Recommendations:" -> {"recommend"}
      [] tok.ch \in {"strong", "good", "excellent", "well", "effective",
                     "weak", "poor", "missing", "lack", "insufficient"} -> {tok.ch}
      [] OTHER -> {}

\* text.toLowerCase().includes(word)
Includes(text, word) == \E i \in 1..Len(text) : word \in WordsIn(text[i])

\* --------------------------------------------------- string helpers (JS)

\* String.prototype.split('\n'): the pieces between the newline atoms
RECURSIVE SplitFrom(_, _, _)
SplitFrom(text, i, cur) ==
    IF i > Len(text) THEN <<cur>>
    ELSE IF text[i].ch = "\n" THEN <<cur>> \o SplitFrom(text, i + 1, <<>>)
    ELSE SplitFrom(text, i + 1, Append(cur, text[i]))

SplitLines(text) == SplitFrom(text, 1, <<>>)

\* String.prototype.trim
RECURSIVE TrimStart(_)
TrimStart(s) == IF s # <<>> /\ IsSpace(Head(s)) THEN TrimStart(Tail(s)) ELSE s

RECURSIVE TrimEnd(_)
TrimEnd(s) ==
    IF s # <<>> /\ IsSpace(s[Len(s)]) THEN TrimEnd(SubSeq(s, 1, Len(s) - 1)) ELSE s

Trim(s) == TrimEnd(TrimStart(s))

\* Array.prototype.slice(0, n) and String.prototype.substring(0, n)
Slice(s, n) == SubSeq(s, 1, Min(n, Len(s)))

\* the index of the last digit of the run of digits that starts at i
RECURSIVE RunEnd(_, _)
RunEnd(text, i) ==
    IF i < Len(text) /\ IsDigit(text[i + 1]) THEN RunEnd(text, i + 1) ELSE i

\* parseInt of a run of digits
RECURSIVE ParseInt(_)
ParseInt(ds) ==
    IF ds = <<>> THEN 0
    ELSE 10 * ParseInt(SubSeq(ds, 1, Len(ds) - 1)) + DigitValue(ds[Len(ds)])

\* ------------------------------------------------------- fallback parsing

\* trimmed.match(/^\d+\./)
NumberedItem(trimmed) ==
    /\ trimmed # <<>>
    /\ IsDigit(trimmed[1])
    /\ RunEnd(trimmed, 1) < Len(trimmed)
    /\ trimmed[RunEnd(trimmed, 1) + 1].ch = "."

\* trimmed.startsWith('-') || trimmed.startsWith(bullet) || trimmed.match(/^\d+\./)
IsListItem(trimmed) ==
    \/ trimmed # <<>> /\ trimmed[1].ch \in {"-", Bullet}
    \/ NumberedItem(trimmed)

\* trimmed.replace(/^[-(bullet)\d.\s]+/, '')
RECURSIVE StripMarker(_)
StripMarker(s) ==
    IF s # <<>> /\ (Head(s).ch \in {"-", Bullet, "."} \/ IsDigit(Head(s)) \/ IsSpace(Head(s)))
    THEN StripMarker(Tail(s))
    ELSE s

\* the for loop of extractListItems over lines[i..]
RECURSIVE ScanLines(_, _, _, _, _)
ScanLines(lines, i, keyword, capturing, items) ==
    IF i > Len(lines) THEN items
    ELSE IF Includes(lines[i], keyword)
         THEN ScanLines(lines, i + 1, keyword, TRUE, items)
    ELSE IF ~capturing THEN ScanLines(lines, i + 1, keyword, FALSE, items)
    ELSE LET trimmed == Trim(lines[i]) IN
         IF IsListItem(trimmed)
         THEN ScanLines(lines, i + 1, keyword, TRUE,
                        Append(items, Chars(StripMarker(trimmed))))
         ELSE IF Len(trimmed) = 0 \/ Len(items) >= MaxListItems
         THEN items
         ELSE ScanLines(lines, i + 1, keyword, TRUE, items)

extractListItems(text, keyword) ==
    Slice(ScanLines(SplitLines(text), 1, keyword, FALSE, <<>>), MaxListItems)

\* where text.match(/(\d+)%/) matches: the digits of the leftmost run followed by "%"
PercentStarts(text) ==
    {i \in 1..Len(text) :
        /\ IsDigit(text[i])
        /\ RunEnd(text, i) < Len(text)
        /\ text[RunEnd(text, i) + 1].ch = "%"}

PositiveWords == <<"strong", "good", "excellent", "well", "effective">>
NegativeWords == <<"weak", "poor", "missing", "lack", "insufficient">>

\* variant: one step per occurrence of a listed word
RECURSIVE NudgePerOccurrence(_, _, _, _)
NudgePerOccurrence(text, words, step, score) ==
    IF words = <<>> THEN score
    ELSE NudgePerOccurrence(text, Tail(words), step,
            score + step * Cardinality({i \in 1..Len(text) : Head(words) \in WordsIn(text[i])}))

\* the two forEach loops: one step per listed word the text includes
RECURSIVE Nudge(_, _, _, _)
Nudge(text, words, step, score) ==
    IF words = <<>> THEN score
    ELSE Nudge(text, Tail(words), step,
               IF Includes(text, Head(words)) THEN score + step ELSE score)

extractKeywordMatch(text) ==
    IF PercentStarts(text) # {}
    THEN LET i == CHOOSE k \in PercentStarts(text) : \A m \in PercentStarts(text) : k <= m
         IN ParseInt(SubSeq(text, i, RunEnd(text, i)))
    ELSE LET score == Nudge(text, NegativeWords, 0 - ScoreStep,
                            Nudge(text, PositiveWords, ScoreStep, BaseScore))
         IN Max(MinScore, Min(MaxScore, score))

FallbackSummary ==
    <<"Resume analysis completed. The AI provided detailed feedback that may need manual review.">>

createFallbackResult(text) ==
    [summary |-> JStr(FallbackSummary),
     strengths |-> JArr(extractListItems(text, "strength")),
     improvements |-> JArr(extractListItems(text, "improv")),
     keywordMatch |-> JNum(extractKeywordMatch(text)),
     skillGaps |-> JArr(extractListItems(text, "skill")),
     recommendations |-> JArr(extractListItems(text, "recommend")),
     optimizedContent |-> JStr(Chars(Slice(text, PreviewLen)) \o <<"...">>)]

\* ----------------------------------------------------- structured parsing

Fields == {"summary", "strengths", "improvements", "keywordMatch", "skillGaps",
           "recommendations", "optimizedContent"}

\* result.match(/\{[\s\S]*\}/): from the first "{" to the last "}"
OpenBraces(text) == {i \in 1..Len(text) : text[i].ch = "{"}
CloseBraces(text) == {i \in 1..Len(text) : text[i].ch = "}"}
FirstOpen(text) == CHOOSE i \in OpenBraces(text) : \A j \in OpenBraces(text) : i <= j
LastClose(text) == CHOOSE i \in CloseBraces(text) : \A j \in CloseBraces(text) : i >= j

HasJsonMatch(text) ==
    /\ OpenBraces(text) # {}
    /\ CloseBraces(text) # {}
    /\ FirstOpen(text) < LastClose(text)

JsonMatch(text) == SubSeq(text, FirstOpen(text), LastClose(text))

\* JSON.parse of a region "{" ... "}": a SyntaxError unless the inside is members
\* and white space; a repeated key keeps its last value
JsonParses(region) ==
    \A i \in 2..(Len(region) - 1) : IsMember(region[i]) \/ IsSpace(region[i])

JsonParse(region) ==
    [k \in Fields |->
        LET at == {i \in 2..(Len(region) - 1) : IsMember(region[i]) /\ region[i].key = k}
        IN IF at = {} THEN JUndefined
           ELSE region[CHOOSE i \in at : \A j \in at : i >= j].val]

IsArray(v) == v.t = "array"

DefaultSummary == <<"Analysis completed">>

\* variant: improvements filled from parsed.strengths
StructuredResultCopyPaste(parsed) ==
    [summary |-> OrElse(parsed["summary"], JStr(DefaultSummary)),
     strengths |-> IF IsArray(parsed["strengths"]) THEN parsed["strengths"] ELSE JArr(<<>>),
     improvements |-> IF IsArray(parsed["strengths"]) THEN parsed["strengths"] ELSE JArr(<<>>),
     keywordMatch |->
        IF parsed["keywordMatch"].t = "number" THEN parsed["keywordMatch"] ELSE JNum(0),
     skillGaps |-> IF IsArray(parsed["skillGaps"]) THEN parsed["skillGaps"] ELSE JArr(<<>>),
     recommendations |->
        IF IsArray(parsed["recommendations"]) THEN parsed["recommendations"] ELSE JArr(<<>>),
     optimizedContent |-> OrElse(parsed["optimizedContent"], JStr(<<>>))]

\* the object literal returned inside the try block
StructuredResult(parsed) ==
    [summary |-> OrElse(parsed["summary"], JStr(DefaultSummary)),
     strengths |-> IF IsArray(parsed["strengths"]) THEN parsed["strengths"] ELSE JArr(<<>>),
     improvements |->
        IF IsArray(parsed["improvements"]) THEN parsed["improvements"] ELSE JArr(<<>>),
     keywordMatch |->
        IF parsed["keywordMatch"].t = "number" THEN parsed["keywordMatch"] ELSE JNum(0),
     skillGaps |-> IF IsArray(parsed["skillGaps"]) THEN parsed["skillGaps"] ELSE JArr(<<>>),
     recommendations |->
        IF IsArray(parsed["recommendations"]) THEN parsed["recommendations"] ELSE JArr(<<>>),
     optimizedContent |-> OrElse(parsed["optimizedContent"], JStr(<<>>))]

\* what leaves parseAnalysisResult: a returned result, or an exception
Returned(path, result) == [raised |-> FALSE, path |-> path, result |-> result]
Raised(what) == [raised |-> TRUE, path |-> what, result |-> <<>>]
\* before parseAnalysisResult has run
Unparsed == [raised |-> FALSE, path |-> "none", result |-> <<>>]

\* variant: the region is the first "{" up to the first "}" after it
parseAnalysisResultFirstObject(text) ==
    LET ends == {j \in CloseBraces(text) : OpenBraces(text) # {} /\ j > FirstOpen(text)}
        close == CHOOSE j \in ends : \A k \in ends : j <= k
    IN IF ends # {} /\ JsonParses(SubSeq(text, FirstOpen(text), close))
       THEN Returned("structured",
                     StructuredResult(JsonParse(SubSeq(text, FirstOpen(text), close))))
       ELSE Returned("fallback", createFallbackResult(text))

\* variant: no try/catch around JSON.parse
parseAnalysisResultNoCatch(text) ==
    IF HasJsonMatch(text) /\ ~JsonParses(JsonMatch(text)) THEN Raised("SyntaxError")
    ELSE IF HasJsonMatch(text)
    THEN Returned("structured", StructuredResult(JsonParse(JsonMatch(text))))
    ELSE Returned("fallback", createFallbackResult(text))

parseAnalysisResult(text) ==
    IF HasJsonMatch(text) /\ JsonParses(JsonMatch(text))
    THEN Returned("structured", StructuredResult(JsonParse(JsonMatch(text))))
    ELSE Returned("fallback", createFallbackResult(text))

\* ------------------------------------------------- parser inputs (bounded)

\* the i-th element of an upstream list: the string "item<i>"
Items(n) == [i \in 1..n |-> <<"item", Digits[i + 1]>>]

SummaryVals == {JUndefined, JStr(<<>>), JStr(<<"ok">>), JNum(7)}
ListLens == {0, 2, MaxListItems, MaxItems}
StrengthVals == {JUndefined, JStr(<<"s">>)} \cup {JArr(Items(n)) : n \in ListLens}
OtherListVals == {JUndefined, JArr(Items(1)), JArr(Items(MaxItems))}
KeywordMatchVals ==
    {JUndefined, JNull, JStr(<<"8", "5">>), JNum(-20), JNum(0), JNum(55), JNum(100), JNum(150)}
OptimizedVals == {JUndefined, JStr(<<>>), JStr(<<"oc">>)}

\* the objects a reply may carry: every combination of the values above
Objects ==
    {[summary |-> su, strengths |-> st, improvements |-> im, keywordMatch |-> kw,
      skillGaps |-> sg, recommendations |-> re, optimizedContent |-> oc] :
        su \in SummaryVals, st \in StrengthVals, im \in OtherListVals,
        kw \in KeywordMatchVals, sg \in OtherListVals, re \in OtherListVals,
        oc \in OptimizedVals}

FieldOrder == <<"summary", "strengths", "improvements", "keywordMatch", "skillGaps",
                "recommendations", "optimizedContent">>

\* the JSON text of an object: its present members between braces
RECURSIVE MembersFrom(_, _)
MembersFrom(o, i) ==
    IF i > Len(FieldOrder) THEN <<>>
    ELSE (IF o[FieldOrder[i]] = JUndefined THEN <<>>
          ELSE <<Mem(FieldOrder[i], o[FieldOrder[i]])>>) \o MembersFrom(o, i + 1)

Serialize(o) == <<Ch("{")>> \o MembersFrom(o, 1) \o <<Ch("}")>>

\* an object with every field in range, and one that breaks the ranges
InRangeObject ==
    [summary |-> JStr(<<"ok">>), strengths |-> JArr(Items(2)),
     improvements |-> JArr(Items(1)), keywordMatch |-> JNum(55),
     skillGaps |-> JArr(Items(1)), recommendations |-> JArr(Items(1)),
     optimizedContent |-> JStr(<<"oc">>)]

\* the pieces prose replies are made of
Chunks ==
    {Text(<<"Strengths:", "\n">>),
     Text(<<"Skills:", "\n">>),
     Text(<<"-", " ", "x", "\n">>),
     Text(<<"-", " ", "x", "\n", "1", ".", " ", "y", "\n", Bullet, " ", "z", "\n">>),
     Text(<<"-", " ", "3", " ", "years", "\n">>),
     Text(<<"\n">>),
     Text(<<"1", "5", "0", "%">>),
     Text(<<"8", "5", "%", " ">>),
     Text(<<"strong", " ">>),
     Text(<<"weak", " ">>),
     Text(<<"{">>),
     Text(<<"}">>),
     Serialize(InRangeObject)}

RECURSIVE Concat(_)
Concat(parts) == IF parts = <<>> THEN <<>> ELSE Head(parts) \o Concat(Tail(parts))

ProseTexts == {Concat(parts) : parts \in UNION {[1..n -> Chunks] : n \in 0..MaxParts}}

\* every reply handed to the parser in the model
RawTexts == {Serialize(o) : o \in Objects} \cup ProseTexts

\* ------------------------------------------------------------------ state

VARIABLES
    response,      \* the raw text handed to the result parser
    parsed,        \* what parseAnalysisResult gave for it
    env,           \* process.env.OPENAI_API_KEY
    clientApiKey,  \* the apiKey the OpenAI client was constructed with
    services,      \* AIServiceRegistry.services: key -> provider
    req,           \* the requests in progress and their outcomes
    modal          \* the state of the frontend's analyzer modal

vars == <<response, parsed, env, clientApiKey, services, req, modal>>
parserVars == <<response, parsed>>
serverVars == <<env, clientApiKey, services, req>>

\* ------------------------------------------------------------ environment

\* process.env.OPENAI_API_KEY: not defined, defined as the empty string, or a key
Undefined == "<undefined>"
EnvValues == {Undefined, "", "sk-1"}

\* variant: availability decided once, when the client is constructed
OpenAIisAvailableAtConstruction(e) == clientApiKey # "dummy-key"

\* !!process.env.OPENAI_API_KEY
OpenAIisAvailable(e) == e # Undefined /\ e # ""

\* variant: the client is constructed with the variable's value, whatever it is
OpenAIconstructorNoDummy(e) == e

\* new OpenAI({apiKey: process.env.OPENAI_API_KEY || 'dummy-key'})
OpenAIconstructor(e) == IF e # Undefined /\ e # "" THEN e ELSE "dummy-key"

\* ----------------------------------------------------------------- errors

NoError == [isError |-> FALSE, kind |-> "", message |-> <<>>]
\* new Error(message); kind names the throw site
Error(kind, message) == [isError |-> TRUE, kind |-> kind, message |-> message]
\* error instanceof Error ? error.message : 'Unknown error'
MessageOf(e) == IF e.isError THEN e.message ELSE <<"Unknown error">>

\* what the OpenAI SDK throws when the call fails: Error instances
ModelFailures ==
    {Error("transport", <<"Request timed out.">>),
     Error("transport", <<"429 status code (no body)">>),
     Error("transport", <<"Unexpected end of JSON input">>)}

\* response.choices[0]?.message?.content of a call that succeeds
NoContent == [present |-> FALSE, text |-> <<>>]
Content(text) == [present |-> TRUE, text |-> text]

OverRangeObject ==
    [InRangeObject EXCEPT !["strengths"] = JArr(Items(MaxItems)),
                          !["keywordMatch"] = JNum(150)]

ModelContents ==
    {NoContent,
     Content(<<>>),
     Content(Serialize(InRangeObject)),
     Content(Serialize(OverRangeObject)),
     Content(Text(<<"Strengths:", "\n", "-", " ", "x", "\n", "\n", "8", "5", "%">>)),
     Content(Text(<<"{", "strong">>))}

\* --------------------------------------------------------------- requests

\* the texts callers pass: empty, white space only, and with content
Texts == {<<>>, <<" ">>, <<"a">>}
\* variant: !text, without trim()
IsBlankNoTrim(chars) == chars = <<>>

\* !text.trim()
IsBlank(chars) == Trim(Text(chars)) = <<>>

RegisteredKeys == {"openai", "notion", "copilot"}
ServiceIds == RegisteredKeys \cup {"nosuch"}

NoHttp == [status |-> 0, error |-> "", message |-> <<>>, success |-> FALSE, provider |-> ""]

Idle ==
    [pc |-> "idle", via |-> "", op |-> "", aiProvider |-> "", serviceId |-> "",
     resumeText |-> JUndefined, jobText |-> JUndefined,
     disk |-> {}, availCalls |-> <<>>, analyzeCalls |-> <<>>,
     modelCalls |-> 0, modelKey |-> "", modelError |-> NoError,
     replied |-> FALSE, content |-> NoContent, parserCalls |-> 0, thrown |-> NoError,
     hasResult |-> FALSE, provided |-> <<>>, result |-> <<>>, listing |-> <<>>,
     http |-> NoHttp]

\* ------------------------------------------------------- mock providers

\* MockNotionAIService / MockCopilotService: isAvailable() is always true
MockisAvailable == TRUE

\* the results MockNotionAIService.analyze / MockCopilotService.analyze return
MockResults ==
    {[summary |-> JStr(<<"mock analysis">>), strengths |-> JArr(Items(n)),
      improvements |-> JArr(Items(1)), keywordMatch |-> JNum(k),
      skillGaps |-> JArr(Items(1)), recommendations |-> JArr(Items(2)),
      optimizedContent |-> JStr(<<"mock content">>)] : n \in {3, MaxListItems}, k \in {72}}

\* --------------------------------------------------------------- registry

\* registerServices(): the map built by the constructor
registerServices ==
    [k \in RegisteredKeys |->
        CASE k = "openai" -> "OpenAIService"
          [] k = "notion" -> "MockNotionAIService"
          [] k = "copilot" -> "MockCopilotService"]

\* service.isAvailable() of the provider registered under a key
isAvailable(provider, e) ==
    IF provider = "OpenAIService" THEN OpenAIisAvailable(e) ELSE MockisAvailable

\* a call of provider.isAvailable() and what it returned
Checked(provider, e) == [provider |-> provider, result |-> isAvailable(provider, e)]

\* --------------------------------------------------------- HTTP responses

\* res.status(400).json({error})
Http400(text) ==
    [status |-> 400, error |-> text, message |-> <<>>, success |-> FALSE, provider |-> ""]
\* variant: the 500 body has no message
Http500NoMessage(text, e) ==
    [status |-> 500, error |-> text, message |-> <<>>, success |-> FALSE, provider |-> ""]

\* res.status(500).json({error, message})
Http500(text, e) ==
    [status |-> 500, error |-> text, message |-> MessageOf(e), success |-> FALSE,
     provider |-> ""]
\* variant: provider is the handler's default key, not the requested one
Http200DefaultProvider(provider) ==
    [status |-> 200, error |-> "", message |-> <<>>, success |-> TRUE, provider |-> "openai"]

\* res.json({success: true, analysis, provider})
Http200(provider) ==
    [status |-> 200, error |-> "", message |-> <<>>, success |-> TRUE, provider |-> provider]

\* what multer passes to next(error): MulterError codes, or the fileFilter's Error
UploadErrors == {"LIMIT_FILE_SIZE", "LIMIT_UNEXPECTED_FILE", "fileFilter"}

\* the error-handling middleware: 400 for an oversize file, else 500
ErrorMiddleware(code) ==
    IF code = "LIMIT_FILE_SIZE"
    THEN Http400("File too large. Maximum size is 10MB.")
    ELSE [status |-> 500, error |-> "Internal server error", message |-> <<>>,
          success |-> FALSE, provider |-> ""]

FailedText(op) ==
    IF op = "files" THEN "Failed to analyze resume" ELSE "Failed to analyze resume text"

\* a registry call ends by throwing e: the caller of the registry gets e, the
\* handler's catch block answers 500
Throws(rq, e) ==
    [rq EXCEPT !.pc = "done", !.thrown = e,
               !.http = IF rq.via = "http" THEN Http500(FailedText(rq.op), e) ELSE NoHttp]

\* a registry call ends by returning result: the handler of POST /analyze unlinks
\* both uploaded files, then answers
Returns(rq, result) ==
    [rq EXCEPT !.pc = "done", !.hasResult = TRUE, !.result = result,
               !.disk = IF rq.via = "http" /\ rq.op = "files" THEN {} ELSE @,
               !.http = IF rq.via = "http" THEN Http200(rq.serviceId) ELSE NoHttp]

\* variant: the registry normalises the result before returning it
registryReturnNormalised(result) ==
    [f \in DOMAIN result |->
        IF result[f].t = "array" THEN JArr(Slice(result[f].a, MaxListItems))
        ELSE IF result[f].t = "number" THEN JNum(Max(MinScore, Min(MaxScore, result[f].n)))
        ELSE result[f]]

\* return await service.analyze(...): the value the provider resolved with
registryReturn(result) == result

\* the provider's analyze resolves with result and the registry returns
ProviderResolves(rq, result) ==
    Returns([rq EXCEPT !.provided = result], registryReturn(result))

\* `Analysis failed: ${error instanceof Error ? error.message : 'Unknown error'}`
AnalysisFailed(e) == Error(e.kind, <<"Analysis failed: ">> \o MessageOf(e))

\* variant: the cause's message is dropped
OpenAIFailedUnknown(e) == Error("provider", <<"OpenAI analysis failed: ", "Unknown error">>)

\* `OpenAI analysis failed: ${error instanceof Error ? error.message : 'Unknown error'}`
OpenAIFailed(e) == Error("provider", <<"OpenAI analysis failed: ">> \o MessageOf(e))

ConfigurationError ==
    Error("configuration",
          <<"OpenAI service is not available. Please check API key configuration.">>)

\* variant: the model call is issued before the availability check
OpenAIanalyzeCallsFirst(rq, e, key) ==
    LET rq1 == [rq EXCEPT !.availCalls = Append(@, Checked("OpenAIService", e)),
                          !.modelCalls = @ + 1, !.modelKey = key]
    IN IF ~OpenAIisAvailable(e)
       THEN Throws(rq1, AnalysisFailed(ConfigurationError))
       ELSE [rq1 EXCEPT !.pc = "modelCall"]

\* variant: analyze relies on the registry's check and does not look again
OpenAIanalyzeNoRecheck(rq, e, key) ==
    [rq EXCEPT !.availCalls = Append(@, Checked("OpenAIService", e)),
               !.pc = "modelCall", !.modelCalls = @ + 1, !.modelKey = key]

\* OpenAIService.analyze up to the await of the model call
OpenAIanalyze(rq, e, key) ==
    LET rq1 == [rq EXCEPT !.availCalls = Append(@, Checked("OpenAIService", e))]
    IN IF ~OpenAIisAvailable(e)
       THEN Throws(rq1, AnalysisFailed(ConfigurationError))
       ELSE [rq1 EXCEPT !.pc = "modelCall", !.modelCalls = @ + 1, !.modelKey = key]

\* service.analyze(resume, job) as the registry calls it, up to its first await
serviceAnalyze(rq, e, key) ==
    LET provider == services[rq.serviceId]
        rq1 == [rq EXCEPT !.analyzeCalls = Append(@, provider)]
    IN IF provider = "OpenAIService"
       THEN OpenAIanalyze(rq1, e, key)
       ELSE [rq1 EXCEPT !.pc = "analyzing"]

\* the "Validate content" checks and the delegation, inside the registry's try
ValidateAndAnalyze(rq, resume, job, emptyResume, emptyJob, e, key) ==
    IF IsBlank(resume) THEN Throws(rq, AnalysisFailed(Error("validation", <<emptyResume>>)))
    ELSE IF IsBlank(job) THEN Throws(rq, AnalysisFailed(Error("validation", <<emptyJob>>)))
    ELSE serviceAnalyze(rq, e, key)

NotFound(id) == Error("not_found", <<"AI service '", id, "' not found">>)
NotAvailable(id) == Error("unavailable", <<"AI service '", id, "' is not available">>)

TextEmptyResume == "Resume text cannot be empty"
TextEmptyJob == "Job description text cannot be empty"

\* variant: the texts are validated before the provider is looked up
analyzeResumeTextValidatesFirst(rq, e, key) ==
    IF IsBlank(rq.resumeText.s)
    THEN Throws(rq, AnalysisFailed(Error("validation", <<TextEmptyResume>>)))
    ELSE IF IsBlank(rq.jobText.s)
    THEN Throws(rq, AnalysisFailed(Error("validation", <<TextEmptyJob>>)))
    ELSE IF rq.serviceId \notin DOMAIN services THEN Throws(rq, NotFound(rq.serviceId))
    ELSE LET rq1 == [rq EXCEPT !.availCalls = Append(@, Checked(services[rq.serviceId], e))]
         IN IF ~isAvailable(services[rq.serviceId], e)
            THEN Throws(rq1, NotAvailable(rq.serviceId))
            ELSE serviceAnalyze(rq1, e, key)

\* variant: isAvailable is evaluated but its value is not acted on
analyzeResumeTextIgnoresAvailability(rq, e, key) ==
    IF rq.serviceId \notin DOMAIN services THEN Throws(rq, NotFound(rq.serviceId))
    ELSE ValidateAndAnalyze(
            [rq EXCEPT !.availCalls = Append(@, Checked(services[rq.serviceId], e))],
            rq.resumeText.s, rq.jobText.s, TextEmptyResume, TextEmptyJob, e, key)

\* analyzeResumeText up to the first await
analyzeResumeText(rq, e, key) ==
    IF rq.serviceId \notin DOMAIN services THEN Throws(rq, NotFound(rq.serviceId))
    ELSE LET rq1 == [rq EXCEPT !.availCalls = Append(@, Checked(services[rq.serviceId], e))]
         IN IF ~isAvailable(services[rq.serviceId], e)
            THEN Throws(rq1, NotAvailable(rq.serviceId))
            ELSE ValidateAndAnalyze(rq1, rq.resumeText.s, rq.jobText.s,
                                    TextEmptyResume, TextEmptyJob, e, key)

\* variant: the lookup and the availability check sit inside the try block
analyzeResumeChecksInsideTry(rq, e) ==
    IF rq.serviceId \notin DOMAIN services
    THEN Throws(rq, AnalysisFailed(NotFound(rq.serviceId)))
    ELSE LET rq1 == [rq EXCEPT !.availCalls = Append(@, Checked(services[rq.serviceId], e))]
         IN IF ~isAvailable(services[rq.serviceId], e)
            THEN Throws(rq1, AnalysisFailed(NotAvailable(rq.serviceId)))
            ELSE [rq1 EXCEPT !.pc = "extractResume"]

\* analyzeResume up to the await of the first extraction
analyzeResume(rq, e) ==
    IF rq.serviceId \notin DOMAIN services THEN Throws(rq, NotFound(rq.serviceId))
    ELSE LET rq1 == [rq EXCEPT !.availCalls = Append(@, Checked(services[rq.serviceId], e))]
         IN IF ~isAvailable(services[rq.serviceId], e)
            THEN Throws(rq1, NotAvailable(rq.serviceId))
            ELSE [rq1 EXCEPT !.pc = "extractResume"]

\* FileProcessor.extractText: the text of the file, or the error of its catch block
ExtractFailure ==
    Error("extraction", <<"Failed to extract text from file: ", "Unsupported file type: .bin">>)
Extracted(chars) == [ok |-> TRUE, text |-> chars, error |-> NoError]
ExtractOutcomes == {Extracted(t) : t \in Texts} \cup {[ok |-> FALSE, text |-> <<>>, error |-> ExtractFailure]}

\* getAvailableServices(): one entry per entry of the map, in insertion order
KeyOrder == <<"openai", "notion", "copilot">>
\* the name field of the mock providers
MockName(provider) ==
    IF provider = "MockNotionAIService" THEN "Notion AI" ELSE "GitHub Copilot"
\* service.name
ServiceName(provider) ==
    IF provider = "OpenAIService" THEN "OpenAI GPT" ELSE MockName(provider)

\* variant: available is the value the provider had when it was constructed
getAvailableServicesCached(e) ==
    LET keys == SelectSeq(KeyOrder, LAMBDA k : k \in DOMAIN services)
        cached(k) == IF services[k] = "OpenAIService" THEN clientApiKey # "dummy-key"
                     ELSE MockisAvailable
    IN [i \in 1..Len(keys) |->
          [id |-> keys[i], name |-> ServiceName(services[keys[i]]),
           available |-> cached(keys[i]),
           status |-> IF isAvailable(services[keys[i]], e) THEN "active" ELSE "offline"]]

\* getAvailableServices(): both isAvailable() calls of an entry run in one turn
getAvailableServices(e) ==
    LET keys == SelectSeq(KeyOrder, LAMBDA k : k \in DOMAIN services)
    IN [i \in 1..Len(keys) |->
          [id |-> keys[i], name |-> ServiceName(services[keys[i]]),
           available |-> isAvailable(services[keys[i]], e),
           status |-> IF isAvailable(services[keys[i]], e) THEN "active" ELSE "offline"]]

\* this.parseAnalysisResult(result) as analyze calls it
Parsed(rq, text) ==
    LET p == parseAnalysisResult(text)
        rq1 == [rq EXCEPT !.parserCalls = @ + 1]
    IN IF p.raised
       THEN Throws(rq1, AnalysisFailed(OpenAIFailed(Error("parse", <<p.path>>))))
       ELSE ProviderResolves(rq1, p.result)

\* variant: a reply without text is handed to the parser as the empty string
OpenAIreplyParsesEmpty(rq, content) ==
    Parsed([rq EXCEPT !.replied = TRUE, !.content = content], content.text)

\* OpenAIService.analyze from the settled model call on: the empty-reply check,
\* the parser, and the catch block around them
OpenAIreply(rq, content) ==
    LET rq1 == [rq EXCEPT !.replied = TRUE, !.content = content]
    IN IF ~content.present \/ content.text = <<>>
       THEN Throws(rq1, AnalysisFailed(OpenAIFailed(
                        Error("provider", <<"Empty response from OpenAI">>))))
       ELSE Parsed(rq1, content.text)

\* ---------------------------------------------------------------- actions

Req == 1..MaxReq

\* a request that ends sends its outcome in the same turn: no other step falls
\* between the end of a request and Deliver
NoneDone == \A q \in Req : req[q].pc # "done"

BodyTexts == {JUndefined} \cup {JStr(t) : t \in Texts}
BothFiles == {"resume", "jobDescription"}

Started(via, op, aiProvider, resume, job, disk) ==
    [Idle EXCEPT !.via = via, !.op = op, !.aiProvider = aiProvider,
                 !.serviceId = IF aiProvider = Undefined THEN "openai" ELSE aiProvider,
                 !.resumeText = resume, !.jobText = job, !.disk = disk]

\* a caller invokes aiRegistry.analyzeResumeText(serviceId, resumeText, jobText)
CallAnalyzeResumeText(r, id, resume, job) ==
    /\ NoneDone
    /\ req[r].pc = "idle"
    /\ req' = [req EXCEPT ![r] =
                 analyzeResumeText(Started("registry", "text", id, JStr(resume), JStr(job), {}),
                                   env, clientApiKey)]
    /\ UNCHANGED <<env, clientApiKey, services, parserVars, modal>>

\* a caller invokes aiRegistry.analyzeResume(serviceId, resumePath, jobPath)
CallAnalyzeResume(r, id) ==
    /\ NoneDone
    /\ req[r].pc = "idle"
    /\ req' = [req EXCEPT ![r] =
                 analyzeResume(Started("registry", "files", id, JUndefined, JUndefined,
                                       BothFiles), env)]
    /\ UNCHANGED <<env, clientApiKey, services, parserVars, modal>>

\* POST /api/analyze-text
PostAnalyzeText(r, aiProvider, resume, job) ==
    /\ NoneDone
    /\ req[r].pc = "idle"
    /\ LET rq == Started("http", "text", aiProvider, resume, job, {})
       IN req' = [req EXCEPT ![r] =
                    IF ~Truthy(resume) \/ ~Truthy(job)
                    THEN [rq EXCEPT !.pc = "done",
                            !.http = Http400("Both resume text and job description text are required")]
                    ELSE analyzeResumeText(rq, env, clientApiKey)]
    /\ UNCHANGED <<env, clientApiKey, services, parserVars, modal>>

\* POST /api/analyze, after multer has stored the uploaded files
PostAnalyze(r, aiProvider, uploaded) ==
    /\ NoneDone
    /\ req[r].pc = "idle"
    /\ LET rq == Started("http", "files", aiProvider, JUndefined, JUndefined, uploaded)
       IN req' = [req EXCEPT ![r] =
                    IF uploaded # BothFiles
                    THEN [rq EXCEPT !.pc = "done",
                            !.http = Http400("Both resume and job description files are required")]
                    ELSE analyzeResume(rq, env)]
    /\ UNCHANGED <<env, clientApiKey, services, parserVars, modal>>

\* POST /api/analyze whose upload multer turns down: the route handler does not
\* run, the error-handling middleware answers (multer has removed what it stored)
PostAnalyzeRejected(r, code) ==
    /\ NoneDone
    /\ req[r].pc = "idle"
    /\ req' = [req EXCEPT ![r] =
                 [Started("http", "rejected", Undefined, JUndefined, JUndefined, {}) EXCEPT
                     !.pc = "done", !.http = ErrorMiddleware(code)]]
    /\ UNCHANGED <<env, clientApiKey, services, parserVars, modal>>

\* GET /api/ai-services
GetAiServices(r) ==
    /\ NoneDone
    /\ req[r].pc = "idle"
    /\ req' = [req EXCEPT ![r] =
                 [Started("http", "list", Undefined, JUndefined, JUndefined, {}) EXCEPT
                     !.pc = "done", !.listing = getAvailableServices(env),
                     !.http = Http200("")]]
    /\ UNCHANGED <<env, clientApiKey, services, parserVars, modal>>

\* await FileProcessor.extractText(resumeFilePath) settles
ExtractResume(r, outcome) ==
    /\ NoneDone
    /\ req[r].pc = "extractResume"
    /\ req' = [req EXCEPT ![r] =
                 IF ~outcome.ok THEN Throws(req[r], AnalysisFailed(outcome.error))
                 ELSE [req[r] EXCEPT !.pc = "extractJob", !.resumeText = JStr(outcome.text)]]
    /\ UNCHANGED <<env, clientApiKey, services, parserVars, modal>>

\* await FileProcessor.extractText(jobDescFilePath) settles; validation and
\* service.analyze follow in the same turn
ExtractJob(r, outcome) ==
    /\ NoneDone
    /\ req[r].pc = "extractJob"
    /\ req' = [req EXCEPT ![r] =
                 IF ~outcome.ok THEN Throws(req[r], AnalysisFailed(outcome.error))
                 ELSE ValidateAndAnalyze([req[r] EXCEPT !.jobText = JStr(outcome.text)],
                                         req[r].resumeText.s, outcome.text,
                                         "Resume file appears to be empty or unreadable",
                                         "Job description file appears to be empty or unreadable",
                                         env, clientApiKey)]
    /\ UNCHANGED <<env, clientApiKey, services, parserVars, modal>>

\* variant: a failed model call is issued once more before giving up
ModelCallFailsRetriesOnce(r, cause) ==
    /\ NoneDone
    /\ req[r].pc = "modelCall"
    /\ req' = [req EXCEPT ![r] =
                 IF req[r].modelCalls < 2
                 THEN [req[r] EXCEPT !.modelCalls = @ + 1]
                 ELSE Throws([req[r] EXCEPT !.modelError = cause],
                             AnalysisFailed(OpenAIFailed(cause)))]
    /\ UNCHANGED <<env, clientApiKey, services, parserVars, modal>>

\* the model call fails: client.chat.completions.create rejects
ModelCallFails(r, cause) ==
    /\ NoneDone
    /\ req[r].pc = "modelCall"
    /\ req' = [req EXCEPT ![r] = Throws([req[r] EXCEPT !.modelError = cause],
                                         AnalysisFailed(OpenAIFailed(cause)))]
    /\ UNCHANGED <<env, clientApiKey, services, parserVars, modal>>

\* the model call succeeds with some content
ModelCallReturns(r, content) ==
    /\ NoneDone
    /\ req[r].pc = "modelCall"
    /\ req' = [req EXCEPT ![r] = OpenAIreply(req[r], content)]
    /\ UNCHANGED <<env, clientApiKey, services, parserVars, modal>>

\* a mock provider's analyze resolves
MockAnalyzeReturns(r, result) ==
    /\ NoneDone
    /\ req[r].pc = "analyzing"
    /\ req' = [req EXCEPT ![r] = ProviderResolves(req[r], result)]
    /\ UNCHANGED <<env, clientApiKey, services, parserVars, modal>>

\* variant: a provider whose analyze failed is dropped from the map
DeliverUnregistersFailed(r) ==
    /\ req[r].pc = "done"
    /\ req' = [req EXCEPT ![r] = Idle]
    /\ services' = IF req[r].thrown.kind = "provider"
                   THEN [k \in (DOMAIN services) \ {req[r].serviceId} |-> services[k]]
                   ELSE services
    /\ UNCHANGED <<env, clientApiKey, parserVars, modal>>

\* the outcome has been handed to the caller; the slot serves the next request
Deliver(r) ==
    /\ req[r].pc = "done"
    /\ req' = [req EXCEPT ![r] = Idle]
    /\ UNCHANGED <<env, clientApiKey, services, parserVars, modal>>

\* the credential variable is supplied, changed or revoked out of band
SetEnv(v) ==
    /\ NoneDone
    /\ v # env
    /\ env' = v
    /\ UNCHANGED <<clientApiKey, services, req, parserVars, modal>>

\* ------------------------------------------------------ the analyzer modal

\* the two components: ResumeAnalyzerModal has a file mode, SimpleResumeAnalyzer
\* takes text only
Components == {"ResumeAnalyzerModal", "SimpleResumeAnalyzer"}

\* the analysis requests of a run, by number
Flights == 1..MaxAnalyses

\* the component's state after mounting, closed (the useState initial values);
\* flights, stale, completeCalls and loads record the requests it has issued,
\* which of them were in flight at a resetForm, the calls of
\* onAnalysisComplete, and the service listings being fetched
Mounted(component) ==
    [component |-> component, isOpen |-> FALSE, selectedService |-> "",
     inputMode |-> IF component = "ResumeAnalyzerModal" THEN "file" ELSE "text",
     resumeFile |-> FALSE, jobDescFile |-> FALSE,
     resumeText |-> <<>>, jobDescText |-> <<>>,
     isAnalyzing |-> FALSE, analysisResult |-> 0, error |-> "", step |-> "input",
     flights |-> [f \in Flights |-> "unused"], completeCalls |-> 0, loads |-> 0]

\* resetForm(); the requests in flight are left running
resetForm(m) ==
    [m EXCEPT !.resumeFile = FALSE, !.jobDescFile = FALSE,
              !.resumeText = <<>>, !.jobDescText = <<>>,
              !.analysisResult = 0, !.error = "", !.step = "input",
              !.isAnalyzing = FALSE,
              !.flights = [f \in Flights |-> IF @[f] = "flying" THEN "stale" ELSE @[f]]]

\* canAnalyze()
canAnalyze(m) ==
    /\ m.selectedService # ""
    /\ IF m.inputMode = "file" THEN m.resumeFile /\ m.jobDescFile
       ELSE ~IsBlank(m.resumeText) /\ ~IsBlank(m.jobDescText)

InFlight(m) == {f \in Flights : m.flights[f] \in {"flying", "stale"}}

\* the parent opens the modal: the effect starts loadAIServices() and resets
OpenModal ==
    /\ ~modal.isOpen
    /\ modal.loads < MaxLoads
    /\ modal' = [resetForm(modal) EXCEPT !.isOpen = TRUE, !.loads = @ + 1]
    /\ UNCHANGED <<parserVars, serverVars>>

\* aiApi.getServices() resolves: the first available service is selected
ServicesLoaded(first) ==
    /\ modal.loads > 0
    /\ modal' = [modal EXCEPT !.loads = @ - 1,
                              !.selectedService = IF first = "" THEN @ ELSE first]
    /\ UNCHANGED <<parserVars, serverVars>>

\* the user picks a provider in the Select
SelectService(id) ==
    /\ modal.isOpen /\ modal.step = "input"
    /\ modal.selectedService # id
    /\ modal' = [modal EXCEPT !.selectedService = id]
    /\ UNCHANGED <<parserVars, serverVars>>

\* the user edits the two text areas, switches tab, or drops the two files
EditResumeText(t) ==
    /\ modal.isOpen /\ modal.step = "input" /\ modal.inputMode = "text"
    /\ modal.resumeText # t
    /\ modal' = [modal EXCEPT !.resumeText = t]
    /\ UNCHANGED <<parserVars, serverVars>>

EditJobDescText(t) ==
    /\ modal.isOpen /\ modal.step = "input" /\ modal.inputMode = "text"
    /\ modal.jobDescText # t
    /\ modal' = [modal EXCEPT !.jobDescText = t]
    /\ UNCHANGED <<parserVars, serverVars>>

SwitchInputMode ==
    /\ modal.isOpen /\ modal.step = "input"
    /\ modal.component = "ResumeAnalyzerModal"
    /\ modal' = [modal EXCEPT !.inputMode = IF @ = "file" THEN "text" ELSE "file"]
    /\ UNCHANGED <<parserVars, serverVars>>

DropFiles ==
    /\ modal.isOpen /\ modal.step = "input" /\ modal.inputMode = "file"
    /\ ~(modal.resumeFile /\ modal.jobDescFile)
    /\ modal' = [modal EXCEPT !.resumeFile = TRUE, !.jobDescFile = TRUE]
    /\ UNCHANGED <<parserVars, serverVars>>

\* the Analyze button (shown in step input, disabled unless canAnalyze() and
\* not isAnalyzing): handleAnalyze up to its await
ClickAnalyze ==
    /\ modal.isOpen /\ modal.step = "input"
    /\ canAnalyze(modal) /\ ~modal.isAnalyzing
    /\ \E f \in Flights :
          /\ modal.flights[f] = "unused"
          /\ \A g \in Flights : g < f => modal.flights[g] # "unused"
          /\ modal' = [modal EXCEPT !.error = "", !.isAnalyzing = TRUE,
                                    !.step = "analyzing", !.flights[f] = "flying"]
    /\ UNCHANGED <<parserVars, serverVars>>

\* the awaited request resolves with success: the rest of the try block, finally
AnalysisSucceeds(f) ==
    /\ modal.flights[f] \in {"flying", "stale"}
    /\ modal' = [modal EXCEPT !.flights[f] = "done", !.analysisResult = f,
                              !.step = "results", !.completeCalls = @ + 1,
                              !.isAnalyzing = FALSE]
    /\ UNCHANGED <<parserVars, serverVars>>

\* the awaited request rejects (or success is false): the catch block, finally
AnalysisFails(f) ==
    /\ modal.flights[f] \in {"flying", "stale"}
    /\ modal' = [modal EXCEPT !.flights[f] = "done", !.error = "Analysis failed",
                              !.step = "input", !.isAnalyzing = FALSE]
    /\ UNCHANGED <<parserVars, serverVars>>

\* Cancel / Close / the close button, in any step: handleClose
CloseModal ==
    /\ modal.isOpen
    /\ modal' = [resetForm(modal) EXCEPT !.isOpen = FALSE]
    /\ UNCHANGED <<parserVars, serverVars>>

\* Start Over, shown in step results
StartOver ==
    /\ modal.isOpen /\ modal.step = "results"
    /\ modal' = [modal EXCEPT !.step = "input", !.analysisResult = 0, !.error = ""]
    /\ UNCHANGED <<parserVars, serverVars>>

ModalInit ==
    /\ modal \in {Mounted(c) : c \in Components}
    /\ response = <<>>
    /\ parsed = Unparsed
    /\ env = Undefined
    /\ clientApiKey = OpenAIconstructor(env)
    /\ services = registerServices
    /\ req = [r \in Req |-> Idle]

ModalNext ==
    \/ OpenModal
    \/ \E first \in {"", "openai", "notion"} : ServicesLoaded(first)
    \/ \E id \in {"", "openai", "notion"} : SelectService(id)
    \/ \E t \in Texts : EditResumeText(t)
    \/ \E t \in Texts : EditJobDescText(t)
    \/ SwitchInputMode
    \/ DropFiles
    \/ ClickAnalyze
    \/ \E f \in Flights : AnalysisSucceeds(f)
    \/ \E f \in Flights : AnalysisFails(f)
    \/ CloseModal
    \/ StartOver

ModalSpec == ModalInit /\ [][ModalNext]_vars

\* ------------------------------------------------------------ server runs

Init ==
    /\ env \in EnvValues
    /\ clientApiKey = OpenAIconstructor(env)
    /\ services = registerServices
    /\ req = [r \in Req |-> Idle]
    /\ response = <<>>
    /\ parsed = Unparsed
    /\ modal = Mounted("SimpleResumeAnalyzer")

Next ==
    \/ \E r \in Req, id \in ServiceIds, resume \in Texts, job \in Texts :
          CallAnalyzeResumeText(r, id, resume, job)
    \/ \E r \in Req, id \in ServiceIds : CallAnalyzeResume(r, id)
    \/ \E r \in Req, p \in ServiceIds \cup {Undefined}, resume \in BodyTexts, job \in BodyTexts :
          PostAnalyzeText(r, p, resume, job)
    \/ \E r \in Req, p \in ServiceIds \cup {Undefined}, up \in SUBSET BothFiles :
          PostAnalyze(r, p, up)
    \/ \E r \in Req, code \in UploadErrors : PostAnalyzeRejected(r, code)
    \/ \E r \in Req : GetAiServices(r)
    \/ \E r \in Req, o \in ExtractOutcomes : ExtractResume(r, o)
    \/ \E r \in Req, o \in ExtractOutcomes : ExtractJob(r, o)
    \/ \E r \in Req, c \in ModelFailures : ModelCallFails(r, c)
    \/ \E r \in Req, c \in ModelContents : ModelCallReturns(r, c)
    \/ \E r \in Req, m \in MockResults : MockAnalyzeReturns(r, m)
    \/ \E r \in Req : Deliver(r)
    \/ \E v \in EnvValues : SetEnv(v)

Spec == Init /\ [][Next]_vars

\* ------------------------------------------------------------ parser runs

ParserInit ==
    /\ response \in RawTexts
    /\ parsed = Unparsed
    /\ env = Undefined
    /\ clientApiKey = OpenAIconstructor(env)
    /\ services = registerServices
    /\ req = [r \in Req |-> Idle]
    /\ modal = Mounted("SimpleResumeAnalyzer")

\* parseAnalysisResult(result) on the reply
ParseResponse ==
    /\ parsed = Unparsed
    /\ parsed' = parseAnalysisResult(response)
    /\ UNCHANGED <<response, serverVars, modal>>

ParserNext == ParseResponse

ParserSpec == ParserInit /\ [][ParserNext]_vars

\* ================================================================ claims

ListFields == {"strengths", "improvements", "skillGaps", "recommendations"}

\* the parser has run and returned
HasParsed == parsed.path # "none" /\ ~parsed.raised

\* request r is an analysis request that has ended
Finished(r) == req[r].pc = "done" /\ req[r].op \in {"text", "files"}
\* ... and it reached the registry (the handlers answer 400 without calling it)
RegistryCalled(r) == Finished(r) /\ (req[r].via = "registry" \/ req[r].http.status # 400)

\* part occurs in message as a run of consecutive fragments
Contains(message, part) ==
    \E i \in 1..(Len(message) - Len(part) + 1) :
        SubSeq(message, i, i + Len(part) - 1) = part

\* C1: for every raw reply handed to the result parser, on the structured path
\* and on the fallback path alike, each of strengths, improvements, skillGaps
\* and recommendations of the returned result has at most 5 entries.
C1_ListsCappedAtFive ==
    HasParsed => \A f \in ListFields : Len(parsed.result[f].a) <= MaxListItems

\* C2: for every raw reply, keywordMatch of the returned result is a number
\* in [0, 100].
C2_KeywordMatchClamped ==
    HasParsed =>
        /\ parsed.result["keywordMatch"].t = "number"
        /\ parsed.result["keywordMatch"].n >= MinScore
        /\ parsed.result["keywordMatch"].n <= MaxScore

\* C3: analyzeResumeText and analyzeResume called with a key that is not
\* registered fail with the not-found error whatever the other arguments are,
\* and no provider's isAvailable or analyze is invoked.
C3_UnregisteredKeyNotFound ==
    \A r \in Req :
        RegistryCalled(r) /\ req[r].serviceId \notin DOMAIN services =>
            /\ req[r].thrown = NotFound(req[r].serviceId)
            /\ req[r].availCalls = <<>>
            /\ req[r].analyzeCalls = <<>>
            /\ req[r].modelCalls = 0
            /\ ~req[r].hasResult

\* an unregistered key together with an empty resume text
C3_Witness ==
    \E r \in Req :
        /\ RegistryCalled(r)
        /\ req[r].op = "text"
        /\ req[r].serviceId = "nosuch"
        /\ req[r].resumeText = JStr(<<>>)
        /\ req[r].thrown.kind = "not_found"

\* a text that is empty or made of white space only, as the claim words it
WhiteSpaceOnly(chars) == \A i \in 1..Len(chars) : chars[i] = " "
\* the request was given an empty or white-space-only text: on the text path
\* exactly one of the two texts, on the file path either extracted text
OneTextBlank(r) ==
    /\ req[r].op = "text"
    /\ WhiteSpaceOnly(req[r].resumeText.s) # WhiteSpaceOnly(req[r].jobText.s)
SomeExtractBlank(r) ==
    /\ req[r].op = "files"
    /\ req[r].resumeText.t = "string"
    /\ req[r].jobText.t = "string"
    /\ (WhiteSpaceOnly(req[r].resumeText.s) \/ WhiteSpaceOnly(req[r].jobText.s))

RejectedAsInvalid(r) ==
    /\ req[r].thrown.isError
    /\ req[r].thrown.kind = "validation"
    /\ req[r].analyzeCalls = <<>>
    /\ req[r].modelCalls = 0
    /\ ~req[r].hasResult

\* C4 as claimed: for every registered key, an empty or white-space-only resume
\* text (job text valid), or job text (resume text valid), or an empty extracted
\* text on the file path, always fails with a validation error and the
\* provider's analyze is never invoked.
C4_BlankInputAlwaysValidationError ==
    \A r \in Req :
        /\ RegistryCalled(r)
        /\ req[r].serviceId \in DOMAIN services
        /\ (OneTextBlank(r) \/ SomeExtractBlank(r))
        => RejectedAsInvalid(r)

\* C4 as amended: the same, for a registered key whose availability check
\* returned true at the call (on the file path: when both files were extracted,
\* which happens only after that check); either or both texts may be blank.
C4_BlankInputValidationErrorWhenAvailable ==
    \A r \in Req :
        /\ RegistryCalled(r)
        /\ req[r].serviceId \in DOMAIN services
        /\ req[r].availCalls # <<>>
        /\ req[r].availCalls[1].result
        /\ \/ req[r].op = "text" /\ (WhiteSpaceOnly(req[r].resumeText.s) \/ WhiteSpaceOnly(req[r].jobText.s))
           \/ SomeExtractBlank(r)
        => RejectedAsInvalid(r)

\* a file request whose job description extracts to white space only
C4_Witness ==
    \E r \in Req :
        /\ RegistryCalled(r)
        /\ req[r].op = "files"
        /\ req[r].resumeText = JStr(<<"a">>)
        /\ req[r].jobText = JStr(<<" ">>)
        /\ RejectedAsInvalid(r)

\* C5: a registry call for a registered provider whose availability check
\* returns false fails with the unavailable error and the provider's analyze is
\* not invoked; POST /api/analyze-text with aiProvider "openai", both texts
\* present and no credential at the call answers 500 (not 200) with the message
\* that the service is not available.
C5_UnavailableRejected ==
    \A r \in Req :
        /\ RegistryCalled(r)
        /\ req[r].serviceId \in DOMAIN services
        /\ req[r].availCalls # <<>>
        /\ ~req[r].availCalls[1].result
        => /\ req[r].thrown = NotAvailable(req[r].serviceId)
           /\ req[r].analyzeCalls = <<>>
           /\ req[r].modelCalls = 0
           /\ ~req[r].hasResult
           /\ req[r].via = "http" =>
                 /\ req[r].http.status = 500
                 /\ ~req[r].http.success
                 /\ req[r].http.message = <<"AI service '", req[r].serviceId, "' is not available">>

\* POST /api/analyze-text for openai with valid texts while the variable is unset
C5_Witness ==
    \E r \in Req :
        /\ Finished(r)
        /\ req[r].via = "http"
        /\ req[r].op = "text"
        /\ req[r].serviceId = "openai"
        /\ req[r].resumeText = JStr(<<"a">>)
        /\ req[r].jobText = JStr(<<"a">>)
        /\ env = Undefined
        /\ req[r].http.status = 500
        /\ req[r].thrown.kind = "unavailable"

\* a credential value is present: the variable is defined and not empty
CredentialPresent(e) == e \notin {Undefined, ""}

OpenAIEntries(listing) == {i \in 1..Len(listing) : listing[i].id = "openai"}

\* C6: whatever set/unset steps preceded it, every call evaluates the live-model
\* provider's availability against the credential variable as it is at that
\* call: the listing's available flag and status for openai, the result of the
\* registry's isAvailable() call and the unavailable outcome, and the provider's
\* own check inside analyze; the registered providers are never replaced.
C6_AvailabilityReadAtEachCall ==
    [][\A r \in Req :
          /\ services' = services
          /\ (req[r].pc = "idle" /\ req'[r].pc = "done" /\ req'[r].op = "list") =>
                /\ OpenAIEntries(req'[r].listing) # {}
                /\ \A i \in OpenAIEntries(req'[r].listing) :
                      /\ req'[r].listing[i].available = CredentialPresent(env)
                      /\ req'[r].listing[i].status =
                            (IF CredentialPresent(env) THEN "active" ELSE "offline")
          /\ (req[r].pc = "idle" /\ req'[r].serviceId = "openai"
                /\ req'[r].availCalls # <<>>) =>
                /\ req'[r].availCalls[1].result = CredentialPresent(env)
                /\ (req'[r].thrown.kind = "unavailable") = ~CredentialPresent(env)
          /\ (req[r].pc = "extractJob" /\ req'[r].analyzeCalls = <<"OpenAIService">>) =>
                /\ req'[r].availCalls[2].result = CredentialPresent(env)
                /\ (req'[r].thrown.kind = "configuration") = ~CredentialPresent(env)
      ]_vars

\* the variable was unset when the provider was constructed and is set now: the
\* listing reports openai available
C6_Witness ==
    \E r \in Req :
        /\ req[r].pc = "done"
        /\ req[r].op = "list"
        /\ clientApiKey = "dummy-key"
        /\ env = "sk-1"
        /\ req[r].listing[1].id = "openai"
        /\ req[r].listing[1].available

\* the live-model provider's analyze was invoked and its own isAvailable()
\* returned false
AnalyzeFoundUnavailable(r) ==
    /\ Finished(r)
    /\ req[r].analyzeCalls = <<"OpenAIService">>
    /\ Len(req[r].availCalls) = 2
    /\ ~req[r].availCalls[2].result

\* C7: the live-model provider's analyze, when isAvailable() is false at the
\* call, fails with the configuration error and no model call has been issued
\* for the request.
C7_UnavailableAnalyzeMakesNoCall ==
    \A r \in Req :
        AnalyzeFoundUnavailable(r) =>
            /\ req[r].thrown = AnalysisFailed(ConfigurationError)
            /\ req[r].modelCalls = 0
            /\ ~req[r].hasResult

\* the credential is revoked while the files are being extracted
C7_Witness ==
    \E r \in Req :
        /\ AnalyzeFoundUnavailable(r)
        /\ req[r].availCalls[1].result
        /\ req[r].thrown.kind = "configuration"

\* C8: every failure of the model call is re-raised by the provider as a
\* provider error whose message contains the cause's message; the request ends
\* with that error and never with a result.
C8_ModelFailureRewrapped ==
    \A r \in Req :
        Finished(r) /\ req[r].modelError.isError =>
            /\ req[r].thrown.isError
            /\ req[r].thrown.kind = "provider"
            /\ Contains(req[r].thrown.message,
                        <<"OpenAI analysis failed: ">> \o req[r].modelError.message)
            /\ ~req[r].hasResult
            /\ req[r].via = "http" => req[r].http.status = 500

\* the model call timed out
C8_Witness ==
    \E r \in Req :
        /\ Finished(r)
        /\ req[r].modelError.message = <<"Request timed out.">>
        /\ req[r].thrown.kind = "provider"

\* C9: the result parser never raises: for every raw reply it returns a result
\* with all seven fields present, on the fallback path when the reply has no
\* brace-delimited region or decoding the region fails.
C9_ParserNeverRaises ==
    parsed.path # "none" =>
        /\ ~parsed.raised
        /\ DOMAIN parsed.result = Fields
        /\ \A f \in Fields : parsed.result[f].t # "undefined"
        /\ (~HasJsonMatch(response) \/ ~JsonParses(JsonMatch(response)))
              => parsed.path = "fallback"

\* a reply with a brace-delimited region that does not decode
C9_Witness ==
    /\ HasParsed
    /\ HasJsonMatch(response)
    /\ ~JsonParses(JsonMatch(response))
    /\ parsed.path = "fallback"

\* the reply is exactly one well-formed JSON object
IsJsonObject(text) ==
    /\ HasJsonMatch(text)
    /\ JsonMatch(text) = text
    /\ JsonParses(text)

IsString(v) == v.t = "string"

\* all seven fields are present with in-range values
InRange(o) ==
    /\ IsString(o["summary"])
    /\ IsString(o["optimizedContent"])
    /\ o["keywordMatch"].t = "number"
    /\ o["keywordMatch"].n >= MinScore
    /\ o["keywordMatch"].n <= MaxScore
    /\ \A f \in ListFields : IsArray(o[f]) /\ Len(o[f].a) <= MaxListItems

\* C10 as claimed: parsing a well-formed JSON object that has all seven fields
\* with in-range values yields exactly those values.
C10_RoundTrip ==
    (HasParsed /\ IsJsonObject(response) /\ InRange(JsonParse(response)))
        => parsed.result = JsonParse(response)

\* C10 as amended: the same when, in addition, summary is a non-empty string.
C10_RoundTripNonEmptySummary ==
    (HasParsed /\ IsJsonObject(response) /\ InRange(JsonParse(response))
        /\ JsonParse(response)["summary"].s # <<>>)
        => parsed.result = JsonParse(response)

\* an in-range object with five strengths and keywordMatch 100 comes back unchanged
C10_Witness ==
    /\ HasParsed
    /\ IsJsonObject(response)
    /\ InRange(JsonParse(response))
    /\ Len(JsonParse(response)["strengths"].a) = MaxListItems
    /\ JsonParse(response)["keywordMatch"].n = 100
    /\ JsonParse(response)["summary"] = JStr(<<"ok">>)
    /\ parsed.path = "structured"
    /\ parsed.result["strengths"].a = Items(MaxListItems)

\* the object decoded from the reply on the structured path
Decoded == JsonParse(JsonMatch(response))

\* C11: on the structured path summary is the fixed placeholder and
\* optimizedContent the empty string when the decoded value is absent or not a
\* string, each list field is the empty sequence when absent or not a sequence,
\* keywordMatch is 0 when absent or not numeric; and summary of every returned
\* result, structured or fallback, is a non-empty string.
C11_FieldsReadDefensively ==
    /\ (HasParsed /\ parsed.path = "structured") =>
          /\ ~IsString(Decoded["summary"]) =>
                parsed.result["summary"] = JStr(<<"Analysis completed">>)
          /\ ~IsString(Decoded["optimizedContent"]) =>
                parsed.result["optimizedContent"] = JStr(<<>>)
          /\ \A f \in ListFields : ~IsArray(Decoded[f]) => parsed.result[f] = JArr(<<>>)
          /\ Decoded["keywordMatch"].t # "number" => parsed.result["keywordMatch"] = JNum(0)
    /\ HasParsed =>
          /\ IsString(parsed.result["summary"])
          /\ parsed.result["summary"].s # <<>>

\* the registry rejected the request by one of its own checks
RegistryRejected(r) ==
    req[r].thrown.isError /\ req[r].thrown.kind \in {"not_found", "unavailable", "validation"}

\* an analysis by the live-model provider that passed every check: each
\* availability check returned true and the provider's analyze was entered
PassedAllChecks(r) ==
    /\ req[r].analyzeCalls = <<"OpenAIService">>
    /\ \A i \in 1..Len(req[r].availCalls) : req[r].availCalls[i].result

\* C12: one analysis request causes at most one model call: exactly one when
\* the live-model provider is available and the inputs are valid, still one
\* after the call failed (no retry: the request ends with the failure), and
\* none when a registry check rejected the request or a mock provider serves it.
C12_AtMostOneModelCall ==
    \A r \in Req :
        /\ req[r].modelCalls <= 1
        /\ PassedAllChecks(r) => req[r].modelCalls = 1
        /\ req[r].modelError.isError =>
              /\ req[r].modelCalls = 1
              /\ req[r].pc = "done"
              /\ req[r].thrown.isError
        /\ (Finished(r) /\ RegistryRejected(r)) => req[r].modelCalls = 0
        /\ (Finished(r) /\ req[r].http.status = 400) => req[r].modelCalls = 0
        /\ req[r].analyzeCalls # <<"OpenAIService">> => req[r].modelCalls = 0

\* the model call of a request timed out and the request ended with one call made
C12_Witness ==
    \E r \in Req :
        /\ Finished(r)
        /\ req[r].modelError.message = <<"Request timed out.">>
        /\ req[r].modelCalls = 1
        /\ req[r].http.status = 500

\* request r is a listing that has been answered
Listed(r) == req[r].pc = "done" /\ req[r].op = "list"

\* the availability a provider key has at query time: the credential for the
\* live-model provider, always true for the two mock providers
AvailableNow(id) == IF id = "openai" THEN CredentialPresent(env) ELSE TRUE

\* C13: getAvailableServices returns exactly one entry per registered provider
\* (openai, notion, copilot); in every entry available is the provider's
\* availability at query time, not a cached value, and status is "active" if
\* and only if available is true, "offline" otherwise.
C13_ListingOnePerProvider ==
    \A r \in Req :
        Listed(r) =>
            /\ Len(req[r].listing) = Cardinality({"openai", "notion", "copilot"})
            /\ \A id \in {"openai", "notion", "copilot"} :
                  \E i \in 1..Len(req[r].listing) :
                      /\ req[r].listing[i].id = id
                      /\ \A j \in 1..Len(req[r].listing) :
                            req[r].listing[j].id = id => j = i
            /\ \A i \in 1..Len(req[r].listing) :
                  /\ req[r].listing[i].available = AvailableNow(req[r].listing[i].id)
                  /\ req[r].listing[i].status \in {"active", "offline"}
                  /\ (req[r].listing[i].status = "active") = req[r].listing[i].available

\* the credential was present at construction and has been revoked since: the
\* listing shows openai offline next to the two mock providers, active
C13_Witness ==
    \E r \in Req :
        /\ Listed(r)
        /\ clientApiKey = "sk-1"
        /\ env = Undefined
        /\ \E i \in 1..3 :
              /\ req[r].listing[i].id = "openai"
              /\ req[r].listing[i].status = "offline"
        /\ \E i \in 1..3 :
              /\ req[r].listing[i].id = "copilot"
              /\ req[r].listing[i].status = "active"

\* C14: when no registry check fails and the provider's analyze resolves, the
\* registry returns exactly the result that analyze produced, and the only
\* analyze invoked for the request is that of the provider registered under the
\* requested key (no fallback to another provider).
C14_ResultReturnedUnchanged ==
    \A r \in Req :
        (Finished(r) /\ req[r].hasResult) =>
            /\ req[r].result = req[r].provided
            /\ req[r].serviceId \in DOMAIN services
            /\ req[r].analyzeCalls = <<services[req[r].serviceId]>>

\* the live-model provider produced a result with six strengths and
\* keywordMatch 150, and the registry handed it on as it was
C14_Witness ==
    \E r \in Req :
        /\ Finished(r)
        /\ req[r].hasResult
        /\ req[r].via = "registry"
        /\ req[r].serviceId = "openai"
        /\ Len(req[r].provided["strengths"].a) = MaxItems
        /\ req[r].result["keywordMatch"] = JNum(150)

\* C15: the provider map is fixed at construction: in every step of every
\* interleaving of listings, text analyses and file analyses, succeeding or
\* failing, the registered keys and the instance bound to each key stay what
\* registerServices made them; and a step of one request changes nothing of
\* any other request in progress.
C15_ProviderMapFixed ==
    [][/\ DOMAIN services = {"openai", "notion", "copilot"}
       /\ services["openai"] = "OpenAIService"
       /\ services["notion"] = "MockNotionAIService"
       /\ services["copilot"] = "MockCopilotService"
       /\ services' = services
       /\ \A r \in Req, q \in Req :
             (r # q /\ req'[r] # req[r]) => req'[q] = req[q]
      ]_vars

\* one request has just failed in the live-model provider while another one is
\* waiting for its own model call, and the three providers are still registered
C15_Witness ==
    \E r \in Req, q \in Req :
        /\ r # q
        /\ Finished(r)
        /\ req[r].thrown.kind = "provider"
        /\ req[q].pc = "modelCall"
        /\ req[q].op = "files"
        /\ DOMAIN services = {"openai", "notion", "copilot"}

\* the text has something other than white space in it
HasContent(chars) == ~WhiteSpaceOnly(chars)

MockKeys == {"notion", "copilot"}

\* C16: with the credential variable unset, constructing the live-model
\* provider and the registry does not fail (the client is given a key string
\* and the three providers are registered); the only effect is that the
\* live-model provider reports unavailable, while both mock providers report
\* available and analyse texts successfully.
C16_UnsetCredentialOnlyDisablesOpenAI ==
    /\ clientApiKey \notin {Undefined, ""}
    /\ DOMAIN services = {"openai"} \cup MockKeys
    /\ \A r \in Req :
          /\ (Listed(r) /\ ~CredentialPresent(env)) =>
                \A i \in 1..Len(req[r].listing) :
                    req[r].listing[i].available = (req[r].listing[i].id \in MockKeys)
          /\ (RegistryCalled(r) /\ req[r].serviceId \in MockKeys) =>
                /\ req[r].availCalls # <<>>
                /\ req[r].availCalls[1].result
          /\ (RegistryCalled(r) /\ req[r].serviceId \in MockKeys /\ req[r].op = "text"
                /\ HasContent(req[r].resumeText.s) /\ HasContent(req[r].jobText.s)) =>
                /\ req[r].hasResult
                /\ ~req[r].thrown.isError

\* the variable was never set, and a text analysis by the notion mock succeeded
C16_Witness ==
    \E r \in Req :
        /\ RegistryCalled(r)
        /\ req[r].serviceId = "notion"
        /\ req[r].hasResult
        /\ env = Undefined
        /\ clientApiKey = "dummy-key"

\* the output invariants of an AnalysisResult: lists of at most five entries,
\* keywordMatch in [0, 100], a non-empty summary
OutputInvariants(o) == InRange(o) /\ o["summary"].s # <<>>

\* POST /api/analyze-text for a mock provider, with content in both texts
MockTextRequest(r) ==
    /\ Finished(r)
    /\ req[r].via = "http"
    /\ req[r].op = "text"
    /\ req[r].aiProvider \in MockKeys
    /\ IsString(req[r].resumeText) /\ HasContent(req[r].resumeText.s)
    /\ IsString(req[r].jobText) /\ HasContent(req[r].jobText.s)

\* C17: POST /api/analyze-text with content in resumeText and
\* jobDescriptionText and aiProvider naming a mock provider ("copilot") answers
\* 200 with success true, provider equal to the requested key and an analysis
\* that satisfies the output invariants, without any model call, whether the
\* credential variable is set or not.
C17_MockTextAnalysisAnswers200 ==
    \A r \in Req :
        MockTextRequest(r) =>
            /\ req[r].http.status = 200
            /\ req[r].http.success
            /\ req[r].http.provider = req[r].aiProvider
            /\ req[r].hasResult
            /\ OutputInvariants(req[r].result)
            /\ req[r].modelCalls = 0
            /\ req[r].analyzeCalls = <<services[req[r].aiProvider]>>

\* the copilot request of the scenario, answered while the variable is unset
C17_Witness ==
    \E r \in Req :
        /\ MockTextRequest(r)
        /\ req[r].aiProvider = "copilot"
        /\ req[r].http.status = 200
        /\ ~CredentialPresent(env)

\* request r is a POST /api/analyze
Upload(r) == req[r].via = "http" /\ req[r].op = "files"

\* both texts are extracted and the provider's analyze is running
Analysing(r) == req[r].pc \in {"modelCall", "analyzing"}

\* C18: on the success path of POST /api/analyze both uploaded files
\* are deleted right after their text has been extracted, so that they are
\* already gone while the provider's analysis (the model call) runs, and they
\* are gone when the success response is sent.
C18_FilesDeletedRightAfterExtraction ==
    \A r \in Req :
        Upload(r) =>
            /\ Analysing(r) => req[r].disk = {}
            /\ (Finished(r) /\ req[r].http.status = 200) => req[r].disk = {}

\* what the handler does instead: both uploaded files stay on disk during
\* extraction and during the provider's analysis; they are deleted once
\* analyzeResume has returned, and are gone when the success response is sent.
UploadsKeptUntilAnalysisReturns ==
    \A r \in Req :
        Upload(r) =>
            /\ req[r].pc \in {"extractResume", "extractJob"} => req[r].disk = BothFiles
            /\ Analysing(r) => req[r].disk = BothFiles
            /\ (Finished(r) /\ req[r].http.status = 200) =>
                  /\ req[r].disk = {}
                  /\ req[r].hasResult

\* C19: no error path leaves the process inconsistent: the provider map is
\* whole, and a POST /api/analyze leaves an uploaded file on disk after its
\* response only when extraction or analysis threw after the files were
\* written; every other outcome, the 400 for a missing resume or
\* job-description file included, leaves no file behind.
C19_NoFileLeftOutsideKnownGap ==
    /\ DOMAIN services = {"openai", "notion", "copilot"}
    /\ \A r \in Req :
          (Finished(r) /\ Upload(r)) =>
              /\ req[r].disk # {} => req[r].thrown.isError
              /\ req[r].http.status = 400 => req[r].disk = {}

\* the body of a POST /api/analyze-text lacks a text (absent or the empty
\* string), or an upload lacks a file
MissingInput(r) ==
    \/ req[r].op = "text" /\ (~Truthy(req[r].resumeText) \/ ~Truthy(req[r].jobText))
    \/ req[r].op = "files" /\ req[r].http.status = 400

\* the request was turned down for an empty or missing required input
RejectedForEmptyInput(r) ==
    /\ Finished(r)
    /\ req[r].via = "http"
    /\ (MissingInput(r) \/ req[r].thrown.kind = "validation")

\* C20: a request rejected because a required input is empty or missing (a
\* white-space-only resumeText or jobDescriptionText and a file whose extracted
\* text is empty included) is answered with a 4xx status.
C20_EmptyInputAnswered4xx ==
    \A r \in Req :
        RejectedForEmptyInput(r) => req[r].http.status \in 400..499

\* request r came over HTTP to one of the two analysis routes and was answered
Answered(r) == Finished(r) /\ req[r].via = "http"

\* a required text field or file is missing from the request
FieldMissing(r) ==
    \/ req[r].op = "text" /\ (~Truthy(req[r].resumeText) \/ ~Truthy(req[r].jobText))
    \/ req[r].op = "files" /\ req[r].availCalls = <<>> /\ ~req[r].thrown.isError

ErrorResponse(r) ==
    /\ req[r].pc = "done"
    /\ req[r].via = "http"
    /\ req[r].http.status >= 400

\* C22: every error response that crosses the HTTP boundary (400 for missing
\* input, 400 for an oversize file, 500 for a registry or provider error, 500
\* from the error-handling middleware) carries both a short category and a
\* human-readable message.
C22_ErrorsCarryCategoryAndMessage ==
    \A r \in Req :
        ErrorResponse(r) =>
            /\ req[r].http.error # ""
            /\ req[r].http.message # <<>>

\* the lines of the reply
ReplyLines == SplitLines(response)

\* the first line of the reply that contains the keyword (0: none does)
FirstKeywordLine(keyword) ==
    LET at == {i \in 1..Len(ReplyLines) : Includes(ReplyLines[i], keyword)}
    IN IF at = {} THEN 0 ELSE CHOOSE i \in at : \A j \in at : i <= j

\* the length of the marker a list-item line begins with: "-", the bullet, or
\* a number and its dot
MarkerLen(trimmed) ==
    IF trimmed[1].ch \in {"-", Bullet} THEN 1 ELSE RunEnd(trimmed, 1) + 1

\* the item text of a list-item line: the line without its marker
ItemText(line) ==
    LET trimmed == Trim(line)
    IN Chars(TrimStart(SubSeq(trimmed, MarkerLen(trimmed) + 1, Len(trimmed))))

\* the keyword's first line is followed by n list-item lines and a blank line
ItemsThenBlank(keyword, n) ==
    LET k == FirstKeywordLine(keyword)
    IN /\ k > 0
       /\ k + n + 1 <= Len(ReplyLines)
       /\ \A i \in 1..n : IsListItem(Trim(ReplyLines[k + i]))
       /\ Trim(ReplyLines[k + n + 1]) = <<>>

ExpectedItems(keyword, n) ==
    [i \in 1..n |-> ItemText(ReplyLines[FirstKeywordLine(keyword) + i])]

\* C23: on the fallback path, when the first line that contains the topical
\* keyword is followed by n <= 5 list-item lines (marker "-", bullet or "N.")
\* and then a blank line, the extracted field is exactly the n item texts in
\* order, each its line with only the marker removed; when no line contains the
\* keyword the field is the empty sequence.
C23_FallbackListExtraction ==
    (HasParsed /\ parsed.path = "fallback") =>
        \A f \in {<<"strengths", "strength">>, <<"skillGaps", "skill">>} :
            /\ \A n \in 0..MaxListItems :
                  ItemsThenBlank(f[2], n) => parsed.result[f[1]].a = ExpectedItems(f[2], n)
            /\ FirstKeywordLine(f[2]) = 0 => parsed.result[f[1]].a = <<>>

\* how many times word occurs in text
Occurrences(text, word) == Cardinality({i \in 1..Len(text) : word \in WordsIn(text[i])})

\* 1 when word occurs in text, however often
Presence(text, word) == IF Occurrences(text, word) > 0 THEN 1 ELSE 0

\* the sum over the words of their occurrences, or of their presence
RECURSIVE SumOver(_, _, _)
SumOver(text, words, perOccurrence) ==
    IF words = {} THEN 0
    ELSE LET w == CHOOSE x \in words : TRUE
         IN (IF perOccurrence THEN Occurrences(text, w) ELSE Presence(text, w))
            + SumOver(text, words \ {w}, perOccurrence)

Positive == {"strong", "good", "excellent", "well", "effective"}
Negative == {"weak", "poor", "missing", "lack", "insufficient"}

Clamped(score) == IF score < 0 THEN 0 ELSE IF score > 100 THEN 100 ELSE score

\* the integer of the first "<digits>%" of the reply
FirstPercent ==
    LET i == CHOOSE k \in PercentStarts(response) : \A m \in PercentStarts(response) : k <= m
    IN ParseInt(SubSeq(response, i, RunEnd(response, i)))

\* the fallback path was taken for a reply with no "<digits>%" in it
WordEstimate == HasParsed /\ parsed.path = "fallback" /\ PercentStarts(response) = {}

\* C24 as claimed: on the fallback path keywordMatch is the integer of the
\* first "<digits>%" of the reply if there is one; otherwise 50 plus 10 for
\* each occurrence of a positive word minus 10 for each occurrence of a
\* negative word, clamped to [0, 100].
C24_KeywordMatchPerOccurrence ==
    /\ (HasParsed /\ parsed.path = "fallback" /\ PercentStarts(response) # {}) =>
          parsed.result["keywordMatch"] = JNum(FirstPercent)
    /\ WordEstimate =>
          parsed.result["keywordMatch"] =
              JNum(Clamped(50 + 10 * SumOver(response, Positive, TRUE)
                              - 10 * SumOver(response, Negative, TRUE)))

\* C24 as amended: the same, with 10 added for each positive word that occurs
\* in the reply and 10 subtracted for each negative word that occurs in it,
\* once per word however often the word occurs.
C24_KeywordMatchPerWord ==
    /\ (HasParsed /\ parsed.path = "fallback" /\ PercentStarts(response) # {}) =>
          parsed.result["keywordMatch"] = JNum(FirstPercent)
    /\ WordEstimate =>
          parsed.result["keywordMatch"] =
              JNum(Clamped(50 + 10 * SumOver(response, Positive, FALSE)
                              - 10 * SumOver(response, Negative, FALSE)))

\* "strong" occurs three times and "weak" once: the estimate is 50 + 10 - 10
C24_Witness ==
    /\ WordEstimate
    /\ Occurrences(response, "strong") = 3
    /\ Occurrences(response, "weak") = 1
    /\ parsed.result["keywordMatch"] = JNum(50)

\* text[i..j] is a well-formed JSON object: braces around members and white space
ObjectAt(text, i, j) ==
    /\ i < j
    /\ text[i].ch = "{"
    /\ text[j].ch = "}"
    /\ \A k \in (i + 1)..(j - 1) : IsMember(text[k]) \/ IsSpace(text[k])

\* the reply contains a well-formed JSON object, whatever surrounds it
ContainsObject(text) == \E i \in 1..Len(text), j \in 1..Len(text) : ObjectAt(text, i, j)

\* the reply has a "{" with a "}" somewhere after it
HasBraceRegion(text) ==
    \E i \in 1..Len(text), j \in 1..Len(text) : i < j /\ text[i].ch = "{" /\ text[j].ch = "}"

\* the stretch from the first "{" of the reply to its last "}" is a
\* well-formed JSON object
OuterRegionIsObject(text) ==
    \E i \in 1..Len(text), j \in 1..Len(text) :
        /\ ObjectAt(text, i, j)
        /\ \A k \in 1..(i - 1) : text[k].ch # "{"
        /\ \A k \in (j + 1)..Len(text) : text[k].ch # "}"

\* C25 as claimed: the region decoded is the first balanced {...} object of
\* the reply, so a reply that has a valid JSON object in it, whatever prose
\* surrounds the object, is decoded on the structured path; the fallback path
\* is taken only when the reply has no brace-delimited region or decoding fails.
C25_FirstBalancedObjectDecoded ==
    HasParsed =>
        /\ ContainsObject(response) => parsed.path = "structured"
        /\ parsed.path = "fallback" =>
              (~HasBraceRegion(response) \/ ~OuterRegionIsObject(response))

\* C25 as amended: the region decoded runs from the first "{" of the reply to
\* its last "}"; the structured path is taken exactly when that region is a
\* valid JSON object (so for an object surrounded by prose that has no brace
\* in it), the fallback path when there is no such region or decoding it fails.
C25_OuterBraceRegionDecoded ==
    HasParsed =>
        /\ parsed.path = "structured" <=> OuterRegionIsObject(response)
        /\ parsed.path = "fallback" <=>
              (~HasBraceRegion(response) \/ ~OuterRegionIsObject(response))

\* an object with prose before and after it was decoded on the structured path
C25_Witness ==
    /\ HasParsed
    /\ parsed.path = "structured"
    /\ response[1].ch = "Strengths:"
    /\ response[Len(response) - 1].ch = "weak"
    /\ parsed.result["summary"] = JStr(<<"ok">>)

\* the error carries the registry's "Analysis failed: " wrapper
Wrapped(e) == e.isError /\ Head(e.message) = "Analysis failed: "

\* the registry call of request r ended with an error
RegistryFailed(r) == RegistryCalled(r) /\ req[r].thrown.isError

\* the precedence of the registry's checks: an unknown key is reported whatever
\* else is wrong; for a known key an unavailable provider is reported whatever
\* the texts are, and on the file path before any file has been read
ChecksInOrder(r) ==
    /\ req[r].serviceId \notin {"openai", "notion", "copilot"} =>
          /\ req[r].thrown.kind = "not_found"
          /\ req[r].availCalls = <<>>
    /\ (req[r].availCalls # <<>> /\ ~req[r].availCalls[1].result) =>
          /\ req[r].thrown.kind = "unavailable"
          /\ Len(req[r].availCalls) = 1
          /\ req[r].op = "files" => req[r].resumeText = JUndefined
    /\ req[r].thrown.kind = "validation" =>
          /\ req[r].availCalls # <<>>
          /\ req[r].availCalls[1].result

\* C26 as claimed: in both analyze entry points an unknown key is reported
\* before unavailability and unavailability before empty-input validation (on
\* the file path before any file is read), and only validation and provider
\* errors carry the "Analysis failed:" wrapper.
C26_PrecedenceWrapperOnValidationAndProvider ==
    \A r \in Req :
        RegistryFailed(r) =>
            /\ ChecksInOrder(r)
            /\ Wrapped(req[r].thrown) <=>
                  req[r].thrown.kind \in {"validation", "provider", "configuration"}

\* C26 as amended: the same precedence; the wrapper is carried by every error
\* raised inside the registry's try block: validation errors, provider errors
\* and, on the file path, extraction errors; not-found and unavailable errors
\* never carry it.
C26_PrecedenceWrapperInsideTry ==
    \A r \in Req :
        RegistryFailed(r) =>
            /\ ChecksInOrder(r)
            /\ Wrapped(req[r].thrown) <=>
                  req[r].thrown.kind \in {"validation", "extraction", "provider", "configuration"}
            /\ ~Wrapped(req[r].thrown) <=> req[r].thrown.kind \in {"not_found", "unavailable"}

\* a text request to the unavailable openai with a blank resume ended with the
\* unwrapped unavailable error while a file request was being extracted
C26_Witness ==
    \E r \in Req, q \in Req :
        /\ RegistryFailed(r)
        /\ req[r].op = "text"
        /\ req[r].serviceId = "openai"
        /\ WhiteSpaceOnly(req[r].resumeText.s)
        /\ req[r].thrown.kind = "unavailable"
        /\ ~Wrapped(req[r].thrown)
        /\ req[q].op = "files"
        /\ req[q].pc = "extractJob"

\* request r went through the registry's availability check for openai and
\* then into the provider's analyze, where availability was checked again
CheckedTwice(r) ==
    /\ req[r].serviceId = "openai"
    /\ req[r].analyzeCalls = <<"OpenAIService">>
    /\ Len(req[r].availCalls) = 2

\* C27: on the file path the registry's availability check and the provider's
\* analyze are separated by the asynchronous extraction: when the credential is
\* revoked in between, the provider's own re-check fails the request with an
\* error and no model call is issued. On the text path nothing can happen
\* between the two checks: they give the same answer, and no state exists in
\* which a text request has passed the first and not yet reached the second.
C27_RecheckAfterExtraction ==
    \A r \in Req :
        /\ (CheckedTwice(r) /\ req[r].op = "files" /\ ~req[r].availCalls[2].result) =>
              /\ req[r].availCalls[1].result
              /\ req[r].pc = "done"
              /\ req[r].thrown.kind = "configuration"
              /\ Wrapped(req[r].thrown)
              /\ req[r].modelCalls = 0
              /\ ~req[r].hasResult
        /\ (CheckedTwice(r) /\ req[r].op = "text") =>
              /\ req[r].availCalls[1].result
              /\ req[r].availCalls[2].result
        /\ (req[r].op = "text" /\ req[r].serviceId = "openai"
              /\ Len(req[r].availCalls) = 1) =>
              /\ req[r].pc = "done"
              /\ req[r].thrown.kind \in {"unavailable", "validation"}
        /\ (req[r].op = "files" /\ req[r].pc \in {"extractResume", "extractJob"}) =>
              Len(req[r].availCalls) = 1

\* an upload for openai passed the registry's check, lost the credential during
\* extraction and was answered 500 without a model call
C27_Witness ==
    \E r \in Req :
        /\ CheckedTwice(r)
        /\ req[r].op = "files"
        /\ req[r].via = "http"
        /\ ~req[r].availCalls[2].result
        /\ req[r].http.status = 500
        /\ req[r].modelCalls = 0
        /\ ~CredentialPresent(env)

\* C28: whenever the live-model provider issues a model call, the credential
\* the call goes out with is the value the credential variable holds at that
\* moment; after the variable was supplied or changed following construction, a
\* call that passes isAvailable() never carries the construction-time value or
\* the placeholder key.
C28_ModelCallUsesCurrentCredential ==
    [][\A r \in Req :
          req'[r].modelCalls > req[r].modelCalls =>
              /\ CredentialPresent(env)
              /\ req'[r].modelKey = env
              /\ req'[r].modelKey # "dummy-key"
      ]_vars

\* the model call of request r succeeded with no text in the reply
RepliedWithoutText(r) ==
    /\ Finished(r)
    /\ req[r].replied
    /\ (~req[r].content.present \/ req[r].content.text = <<>>)

\* C29: when the model call succeeds but returns no text (no choice, no
\* message, or empty content), the provider hands nothing to the result parser
\* and returns no fallback result: the request fails with the provider error,
\* which the registry re-raises with its wrapper and the HTTP surface answers
\* with 500.
C29_EmptyReplyFails ==
    \A r \in Req :
        RepliedWithoutText(r) =>
            /\ req[r].parserCalls = 0
            /\ ~req[r].hasResult
            /\ req[r].thrown =
                  Error("provider", <<"Analysis failed: ", "OpenAI analysis failed: ",
                                      "Empty response from OpenAI">>)
            /\ req[r].modelCalls = 1
            /\ req[r].via = "http" =>
                  /\ req[r].http.status = 500
                  /\ req[r].http.message = req[r].thrown.message

\* over HTTP, a text request to openai got a reply with empty content
C29_Witness ==
    \E r \in Req :
        /\ RepliedWithoutText(r)
        /\ req[r].content = Content(<<>>)
        /\ req[r].via = "http"
        /\ req[r].op = "text"
        /\ req[r].http.status = 500

\* a request that was in flight when the modal was closed or reset completes
\* in this step
StaleCompletes(f) == modal.flights[f] = "stale" /\ modal'.flights[f] = "done"

\* such a completion changes neither step, analysisResult nor error and does
\* not call onAnalysisComplete
StaleCompletionIgnored ==
    \A f \in Flights :
        StaleCompletes(f) =>
            /\ modal'.step = modal.step
            /\ modal'.analysisResult = modal.analysisResult
            /\ modal'.error = modal.error
            /\ modal'.completeCalls = modal.completeCalls

\* at most one analysis request issued by the modal is in flight
AtMostOneInFlight == Cardinality(InFlight(modal)) <= 1

\* C30: once the modal has been closed or reset while an analysis request is in
\* flight, the later completion of that request changes neither step,
\* analysisResult nor error and does not call onAnalysisComplete; and at any
\* time at most one analysis request issued by the modal is in flight.
C30_StaleCompletionIgnoredOneInFlight ==
    [][StaleCompletionIgnored /\ AtMostOneInFlight /\ AtMostOneInFlight']_vars

\* every completion of a request left in flight by a close or reset is ignored
StaleCompletionsAlwaysIgnored == [][StaleCompletionIgnored]_vars

====
